---- MODULE Spec2Model ----
(***************************************************************************)
(* State machine of the candidate list controller of                       *)
(* src/pages/Candidates.tsx (the Candidates component, lines 88-598):      *)
(* its React state, the requests it has issued that have not resolved yet, *)
(* and one action per event handler or promise continuation.               *)
(***************************************************************************)
EXTENDS Integers, Sequences, FiniteSets, Bags, TLC

\* ------------------------------------------------------------------ bounds

\* Largest page number / page count a list response reports.
MaxPages == 2

\* Longest data array a list or search response carries.
MaxData == 2

\* Most requests outstanding at once.
MaxInFlight == 2

\* Most questions in one generation response.
MaxQuestions == 2

\* ------------------------------------------------------------ value spaces

\* null of string | null state (error, deletingCandidate, deleteDialogOpen).
Null == "<null>"

\* type CandidateStatus
CandidateStatus == {"in-progress", "hold", "accepted", "rejected"}

\* status?: absent (undefined, null or "": every falsy value of the field).
NoStatus == ""

\* What the responses of the model carry in status: nothing, or a status.
ServerStatus == {NoStatus, "hold"}

\* _id values of the records the server holds.
Ids == {"a", "b"}

\* An optional field of a record: None when it is missing, Some(x) when set.
None == <<>>

Some(x) == <<x>>

\* A CandidateAPI record, by the fields the component reads: _id, status,
\* and the texts it searches (strings as their characters; location,
\* currentTitle and role are optional strings, technicalSkills and
\* softSkills optional arrays of strings).
Profile(id, fullName, email, phone, location, currentTitle, role, technicalSkills, softSkills, st) == [_id |-> id, fullName |-> fullName, email |-> email, phone |-> phone, location |-> location, currentTitle |-> currentTitle, role |-> role, technicalSkills |-> technicalSkills, softSkills |-> softSkills, status |-> st]

\* personalInfo.fullName of a record, as its characters.
FullNameOf(id) == IF id = "a" THEN <<"A">> ELSE <<"b">>

\* A CandidateAPI record as a response carries it.
ServerRecord(id, st) == Profile(id, FullNameOf(id), <<"@">>, <<"1">>, None, None, None, None, None, st)

\* The records the responses of the model are made of: one without status,
\* one with.
ServerRecords == {ServerRecord("a", NoStatus), ServerRecord("b", "hold")}

SeqsUpTo(S, n) == UNION {[1..k -> S] : k \in 0..n}

\* The pagination of a list response: page and pages, both 0 when the
\* response carries no pagination.
Paginations == {<<0, 0>>} \cup ((1..MaxPages) \X (1..MaxPages))

\* Parsed body of a list response: data, pagination.page, pagination.pages.
ListResponses(bodies) == {[data |-> d, page |-> p[1], pages |-> p[2]] : d \in bodies, p \in Paginations}

\* Parsed body of a list response whose pagination, when it carries one,
\* has 1 <= page <= pages.
PagedResponses(bodies) == {r \in ListResponses(bodies) : r.page <= r.pages}

\* Parsed body of a list response that carries no pagination.
UnpagedResponses(bodies) == {[data |-> d, page |-> 0, pages |-> 0] : d \in bodies}

\* Parsed body of a search response: only data is read.
SearchResponses(bodies) == {[data |-> d, page |-> 0, pages |-> 0] : d \in bodies}

\* Every data array of at most MaxData records.
AllBodies == SeqsUpTo(ServerRecords, MaxData)

\* The empty data array and the one of the record that has a status.
HoldBodies == {<<>>, <<ServerRecord("b", "hold")>>}

\* The data arrays of at most one record.
PageBodies == {d \in AllBodies : Len(d) <= 1}

NoResp == [data |-> <<>>, page |-> 0, pages |-> 0]

\* What the search box can hold, as characters.
SearchTerms == {<<>>, <<" ">>, <<"a">>}

\* Outcome of a delete request: {success: true}, {success: false, message},
\* {success: false} and a rejected fetch or unparsable body.
DeleteOutcomes == {"ok", "fail-message", "fail-nomessage", "reject"}

\* An issued request: its endpoint and what it was issued with.
Req(kind, pageNum, email, id) == [kind |-> kind, pageNum |-> pageNum, email |-> email, id |-> id, caller |-> ""]

\* A list request, and which caller of fetchCandidates issued it: the mount
\* effect, handleSearch or handlePageChange.
ListReq(pageNum, caller) == [Req("list", pageNum, <<>>, "") EXCEPT !.caller = caller]

SearchReq(email) == Req("search", 0, email, "")

DeleteReq(id) == Req("delete", 0, <<>>, id)

\* Not a request: the row a row control acted on.
RowOf(id) == Req("row", 0, <<>>, id)

\* The items of a row's status menu.
StatusMenuItems == {"in-progress", "hold", "accepted", "rejected"}

NoReq == Req("none", 0, <<>>, "")

\* toast({title, description, variant})
Toast(title, description, variant) == [title |-> title, description |-> description, variant |-> variant]

\* result.message of a delete response that carries one
ServerMessage == "<result.message>"

\* error.message of the Error a rejected fetch or response.json() throws
TransportMessage == "<error.message>"

\* ---------------------------------------------------------------- helpers

\* Trim that strips nothing.
TrimNothing(s) == s

\* String.prototype.trim on a character sequence.
RECURSIVE TrimLeft(_)
TrimLeft(s) == IF s # <<>> /\ Head(s) = " " THEN TrimLeft(Tail(s)) ELSE s

RECURSIVE TrimRight(_)
TrimRight(s) == IF s # <<>> /\ s[Len(s)] = " " THEN TrimRight(SubSeq(s, 1, Len(s) - 1)) ELSE s

Trim(s) == TrimRight(TrimLeft(s))

\* String.prototype.toLowerCase, per character.
LowerChar(c) == IF c = "A" THEN "a" ELSE IF c = "B" THEN "b" ELSE c

ToLowerCase(s) == [i \in 1..Len(s) |-> LowerChar(s[i])]

\* String.prototype.includes
Includes(hay, needle) == \E i \in 0..(Len(hay) - Len(needle)) : SubSeq(hay, i + 1, i + Len(needle)) = needle

\* An OrDefault without the default.
OrDefaultMissing(x, d) == x

\* An OrDefault that ignores the value and always takes the default.
OrDefaultOnly(x, d) == d

\* x || d on a number
OrDefault(x, d) == IF x = 0 THEN d ELSE x

\* WithStatus without the default: the record as the response carries it.
WithStatusAsSent(c) == c

\* { ...candidate, status: candidate.status || "in-progress" }
WithStatus(c) == [c EXCEPT !.status = IF c.status = NoStatus THEN "in-progress" ELSE c.status]

\* (data.data || []).map(...)
CandidatesWithStatus(data) == [i \in 1..Len(data) |-> WithStatus(data[i])]

\* WithoutId with the comparison inverted: keeps the records it should drop.
WithoutIdInverted(prev, candidateId) == SelectSeq(prev, LAMBDA c : c._id = candidateId)

\* prev.filter(candidate => candidate._id !== candidateId)
WithoutId(prev, candidateId) == SelectSeq(prev, LAMBDA c : c._id # candidateId)

\* WithNewStatus without the id test: every record gets the status.
WithNewStatusAll(prev, id, newStatus) == [i \in 1..Len(prev) |-> [prev[i] EXCEPT !.status = newStatus]]

\* prev.map(candidate => candidate._id === id ? {...candidate, status} : candidate)
WithNewStatus(prev, id, newStatus) == [i \in 1..Len(prev) |-> IF prev[i]._id = id THEN [prev[i] EXCEPT !.status = newStatus] ELSE prev[i]]

\* The outstanding requests with one more, and with one settled.
Issued(bag, req) == bag (+) SetToBag({req})

Settled(bag, req) == bag (-) SetToBag({req})

\* ------------------------------------------------- Interview: value spaces

\* Two Role records of the catalog: _id, role (its name) and skills.
RoleA == [_id |-> "ra", role |-> "Backend", skills |-> <<"s1", "s2">>]

RoleB == [_id |-> "rb", role |-> "QA", skills |-> <<"s2">>]

\* The role arrays a catalog response may hold.
Catalogs == {<<>>, <<RoleA, RoleB>>}

\* How a catalog response that parses holds its array: {data: [...]}, the
\* array itself, or an object without an array.
CatalogShapes == {"wrapped", "bare", "notArray"}

\* A request that does not end in a usable body: rejected fetch,
\* !response.ok, or response.json() throwing.
Failures == {"reject", "status", "parse"}

\* Two APIQuestion records.
QuestionA == [question |-> "q1", type |-> "technical", complexity |-> "Easy", expectedAnswer |-> "a1", skills |-> <<"s1">>]

QuestionB == [question |-> "q2", type |-> "behavioral", complexity |-> "Hard", expectedAnswer |-> "a2", skills |-> <<"s2">>]

\* The bodies of a generation response that parses: result.data.questions
\* of up to MaxQuestions records, or a body without data.
GenerateResponses ==
    {[hasData |-> TRUE, questions |-> q] : q \in SeqsUpTo({QuestionA, QuestionB}, MaxQuestions)}
    \cup {[hasData |-> FALSE, questions |-> <<>>]}

NoGenerateResponse == [hasData |-> FALSE, questions |-> <<>>]

\* The File a file input hands over, NoFile when files[0] is undefined.
NoFile == "<undefined>"

Files == {"cv.pdf"}

\* The values the complexity Slider can hand over (its min and max), and
\* those the count's range Input can.
SliderRange == 0..100

CountRange == 1..20

\* Values the complexity slider and the count's range input hand over.
SliderValues == {0, 100}

RangeValues == {1, 20}

\* JSON.stringify(x): the text of x, kept apart from x itself.
JsonStringify(x) == [json |-> x]

\* The catalog request, marked with what issued it.
RolesReq(caller) == [kind |-> "roles", caller |-> caller, role |-> "", skills |-> JsonStringify(<<>>), questionComplexity |-> "", numberOfQuestions |-> "", pdf |-> Null]

\* The generation request: the fields appended to its FormData (the skills
\* as JSON text, the numbers as decimal text), pdf Null when none is appended.
GenerateReq(role, skills, questionComplexity, numberOfQuestions, pdf) == [kind |-> "generate", caller |-> "", role |-> role, skills |-> skills, questionComplexity |-> questionComplexity, numberOfQuestions |-> numberOfQuestions, pdf |-> pdf]

\* What pending keeps of an issued request: the endpoint it went to and what
\* issued it. No continuation reads the request's fields.
Outstanding(req) == [kind |-> req.kind, caller |-> req.caller]

NoInterviewReq == [kind |-> "none", caller |-> "", role |-> "", skills |-> JsonStringify(<<>>), questionComplexity |-> "", numberOfQuestions |-> "", pdf |-> Null]

\* ---------------------------------------------------- Interview: helpers

\* Array.isArray(data) ? data : [] of data = result.data || result
RolesArray(shape, catalog) == IF shape = "notArray" THEN <<>> ELSE catalog

\* roles.find(role => role._id === id), <<>> when there is none, else <<role>>
FindRole(rs, id) == SelectSeq(rs, LAMBDA r : r._id = id)

\* roles.find(role => role._id === selectedRole)?.skills || []
AvailableSkillsOf(rs, id) == IF FindRole(rs, id) = <<>> THEN <<>> ELSE FindRole(rs, id)[1].skills

\* roles.find(r => r._id === selectedRole)?.role || ""
RoleNameOf(rs, id) == IF FindRole(rs, id) = <<>> THEN "" ELSE FindRole(rs, id)[1].role

\* prev.includes(skill)
IncludesSkill(prev, skill) == \E i \in 1..Len(prev) : prev[i] = skill

\* Math.max and Math.min of two integers
MathMax(a, b) == IF a >= b THEN a ELSE b

MathMin(a, b) == IF a <= b THEN a ELSE b

\* A label whose tests are < where the source has <=.
GetComplexityLabelStrict(value) ==
    IF value < 25 THEN "Easy"
    ELSE IF value < 50 THEN "Medium-Low"
    ELSE IF value < 75 THEN "Medium-High"
    ELSE "Hard"

GetComplexityLabel(value) ==
    IF value <= 25 THEN "Easy"
    ELSE IF value <= 50 THEN "Medium-Low"
    ELSE IF value <= 75 THEN "Medium-High"
    ELSE "Hard"

GetComplexityDescription(value) ==
    IF value <= 25 THEN "Basic concepts and straightforward implementations"
    ELSE IF value <= 50 THEN "Intermediate concepts with some complexity"
    ELSE IF value <= 75 THEN "Advanced concepts requiring deeper understanding"
    ELSE "Expert-level with edge cases and complex scenarios"

\* An updater that appends the skill whether or not it is selected.
ToggledSkillAppended(prev, skill) == Append(prev, skill)

\* The updater of toggleSkill.
ToggledSkill(prev, skill) ==
    IF IncludesSkill(prev, skill)
    THEN SelectSeq(prev, LAMBDA x : x # skill)
    ELSE Append(prev, skill)

\* The updater of toggleQuestion.
ToggledQuestion(prev, questionIndex) ==
    IF questionIndex \in prev THEN prev \ {questionIndex} ELSE prev \cup {questionIndex}

\* A transform that returns the questions last to first.
TransformedQuestionsReversed(questions) == [i \in 1..Len(questions) |-> questions[Len(questions) + 1 - i]]

\* questions.map(q => ({question, type, complexity, expectedAnswer, skills}))
TransformedQuestions(questions) == [i \in 1..Len(questions) |-> [question |-> questions[i].question, type |-> questions[i].type, complexity |-> questions[i].complexity, expectedAnswer |-> questions[i].expectedAnswer, skills |-> questions[i].skills]]

\* result.data?.questions || []
QuestionsOf(resp) == IF resp.hasData THEN resp.questions ELSE <<>>

\* ------------------------------------------------------------------ state

VARIABLES
    searchTerm, searchMode, searchLoading, candidates, page, totalPages,
    loading, error, deletingCandidate, deleteDialogOpen, statusFilter,
    inflight,    \* bag of the requests issued and not yet resolved
    candSource,  \* which kind of response candidates was last replaced from
    last         \* the step just taken: operation, request and response

vars == <<searchTerm, searchMode, searchLoading, candidates, page, totalPages, loading, error, deletingCandidate, deleteDialogOpen, statusFilter, inflight, candSource, last>>

\* The state of the Interview component, named as in its source but for
\* its loading and error, which are interviewLoading and interviewError.
VARIABLES
    uploadedFile, selectedRole, selectedSkills, complexity, questionCount,
    generatedQuestions, isGenerating, expandedQuestions, roles,
    interviewLoading, interviewError,
    pending,        \* bag of the Interview requests issued and not yet resolved
    lastInterview   \* the Interview step just taken

ivars == <<uploadedFile, selectedRole, selectedSkills, complexity, questionCount, generatedQuestions, isGenerating, expandedQuestions, roles, interviewLoading, interviewError, pending, lastInterview>>

\* The React state of the Interview component.
interviewView == <<uploadedFile, selectedRole, selectedSkills, complexity, questionCount, generatedQuestions, isGenerating, expandedQuestions, roles, interviewLoading, interviewError>>

\* The record of an Interview step: the operation, its argument (or, for
\* the count buttons, the count their handler closed over), the request it
\* issued or settled, the response body it handled, the toasts it emitted,
\* and (for generateQuestions) the generatedQuestions it was invoked with.
InterviewStep(op, req, resp, toasts, before) == [op |-> op, arg |-> "", req |-> req, resp |-> resp, toasts |-> toasts, before |-> before]

\* The record of a step that has an argument and issues nothing.
InterviewStepOn(op, arg) == [op |-> op, arg |-> arg, req |-> NoInterviewReq, resp |-> NoGenerateResponse, toasts |-> <<>>, before |-> <<>>]

\* The React state of the component, without the model's bookkeeping.
view == <<searchTerm, searchMode, searchLoading, candidates, page, totalPages, loading, error, deletingCandidate, deleteDialogOpen, statusFilter>>

\* The record of a step: the operation, the request or row it concerns, the
\* response body it handled, a detail (the delete outcome, the new status,
\* the mode handleSearch was invoked in), the toasts it emitted and, for a
\* response, the status edit made in the step before it.
StepWith(op, req, resp, detail) == [op |-> op, req |-> req, resp |-> resp, detail |-> detail, toasts |-> <<>>, edited |-> <<>>]

Step(op, req, resp) == StepWith(op, req, resp, "")

\* ------------------------------------------------------ rendering projection

\* x && x.toLowerCase().includes(search) of an optional string
OptionalIncludes(x, search) == x # None /\ x[1] # <<>> /\ Includes(ToLowerCase(x[1]), search)

\* xs && xs.some(skill => skill.toLowerCase().includes(search))
SomeIncludes(xs, search) == xs # None /\ \E i \in 1..Len(xs[1]) : Includes(ToLowerCase(xs[1][i]), search)

\* A filter that searches the full name only.
VisibleByNameOnly(c) ==
    LET search == ToLowerCase(searchTerm)
        matchesSearch == IF searchMode THEN TRUE ELSE Includes(ToLowerCase(c.fullName), search)
        matchesStatus == statusFilter = "all" \/ c.status = statusFilter
    IN  matchesSearch /\ matchesStatus

\* matchesSearch && matchesStatus of one record
Visible(c) ==
    LET search == ToLowerCase(searchTerm)
        matchesSearch ==
            IF searchMode THEN TRUE
            ELSE \/ Includes(ToLowerCase(c.fullName), search)
                 \/ Includes(ToLowerCase(c.email), search)
                 \/ (c.phone # <<>> /\ Includes(ToLowerCase(c.phone), search))
                 \/ OptionalIncludes(c.location, search)
                 \/ OptionalIncludes(c.currentTitle, search)
                 \/ OptionalIncludes(c.role, search)
                 \/ SomeIncludes(c.technicalSkills, search)
                 \/ SomeIncludes(c.softSkills, search)
        matchesStatus == statusFilter = "all" \/ c.status = statusFilter
    IN  matchesSearch /\ matchesStatus

filteredCandidates == SelectSeq(candidates, Visible)

\* A row (Card) for id is rendered.
RowShown(id) == \E i \in 1..Len(filteredCandidates) : filteredCandidates[i]._id = id

\* {!searchMode && totalPages > 1 && (...)}
PaginationShown == ~searchMode /\ totalPages > 1

PreviousDisabled == page = 1 \/ loading

NextDisabled == page = totalPages \/ loading

\* A page button that is never disabled.
PageButtonNeverDisabled == FALSE

PageButtonDisabled == loading

\* The page numbers the enabled pagination controls pass to handlePageChange.
PageControlTargets ==
    IF ~PaginationShown THEN {}
    ELSE (IF PreviousDisabled THEN {} ELSE {page - 1})
         \cup (IF PageButtonDisabled THEN {} ELSE 1..totalPages)
         \cup (IF NextDisabled THEN {} ELSE {page + 1})

\* disabled of the row's delete trigger
DeleteTriggerDisabled(id) == deletingCandidate = id \/ loading

\* disabled of the dialog's AlertDialogAction
DeleteActionDisabled(id) == deletingCandidate = id

\* disabled of the search Input
SearchInputDisabled == searchLoading \/ loading

\* -------------------------------------------------------------------- Init

\* The Interview component after mounting: useState initial values and the
\* effect's fetchRoles up to its fetch call.
InterviewInit ==
    /\ uploadedFile = Null
    /\ selectedRole = ""
    /\ selectedSkills = <<>>
    /\ complexity = 50
    /\ questionCount = 10
    /\ generatedQuestions = <<>>
    /\ isGenerating = FALSE
    /\ expandedQuestions = {}
    /\ roles = <<>>
    /\ interviewLoading = TRUE
    /\ interviewError = Null
    /\ pending = SetToBag({Outstanding(RolesReq("mount"))})
    /\ lastInterview = InterviewStep("mount", RolesReq("mount"), NoGenerateResponse, <<>>, <<>>)

\* The Candidates component after mounting (useState initial values and the
\* effect's fetchCandidates(1)), and the Interview component after mounting.
Init ==
    /\ InterviewInit
    /\ searchTerm = <<>>
    /\ searchMode = FALSE
    /\ searchLoading = FALSE
    /\ candidates = <<>>
    /\ page = 1
    /\ totalPages = 1
    /\ loading = TRUE
    /\ error = Null
    /\ deletingCandidate = Null
    /\ deleteDialogOpen = Null
    /\ statusFilter = "all"
    /\ inflight = SetToBag({ListReq(1, "mount")})
    /\ candSource = "none"
    /\ last = Step("mount", ListReq(1, "mount"), NoResp)

\* ----------------------------------------------------------------- actions

\* fetchCandidates, up to the fetch call.
FetchCandidates(pageNum, caller) ==
    /\ loading' = TRUE
    /\ inflight' = Issued(inflight, ListReq(pageNum, caller))

\* onChange of the search Input
SetSearchTerm(value) ==
    /\ ~SearchInputDisabled
    /\ value # searchTerm
    /\ searchTerm' = value
    /\ last' = Step("setSearchTerm", NoReq, NoResp)
    /\ UNCHANGED <<searchMode, searchLoading, candidates, page, totalPages, loading, error, deletingCandidate, deleteDialogOpen, statusFilter, inflight, candSource>>

\* A status Select that also empties the search box.
SetStatusFilterClearingSearch(status) ==
    /\ statusFilter' = status
    /\ searchTerm' = <<>>
    /\ last' = StepWith("setStatusFilter", NoReq, NoResp, status)
    /\ UNCHANGED <<searchMode, searchLoading, candidates, page, totalPages, loading, error, deletingCandidate, deleteDialogOpen, inflight, candSource>>

\* onValueChange of the status Select: setStatusFilter
SetStatusFilter(status) ==
    /\ statusFilter' = status
    /\ last' = StepWith("setStatusFilter", NoReq, NoResp, status)
    /\ UNCHANGED <<searchTerm, searchMode, searchLoading, candidates, page, totalPages, loading, error, deletingCandidate, deleteDialogOpen, inflight, candSource>>

\* Shown instead of the rows: the empty-list panel's Clear Search button.
ClearSearchShown == Len(filteredCandidates) = 0 /\ ~loading /\ error = Null /\ searchTerm # <<>>

\* onClick of the Clear Search button
ClearSearch ==
    /\ ClearSearchShown
    /\ searchTerm' = <<>>
    /\ last' = Step("clearSearch", NoReq, NoResp)
    /\ UNCHANGED <<searchMode, searchLoading, candidates, page, totalPages, loading, error, deletingCandidate, deleteDialogOpen, statusFilter, inflight, candSource>>

\* A handleSearch that clears the error when it issues its request.
HandleSearchClearingError ==
    LET email == Trim(searchTerm) IN
    /\ BagCardinality(inflight) < MaxInFlight
    /\ error' = Null
    /\ IF email = <<>>
       THEN /\ searchMode' = FALSE
            /\ FetchCandidates(1, "handleSearch")
            /\ last' = Step("searchEmpty", ListReq(1, "handleSearch"), NoResp)
            /\ UNCHANGED searchLoading
       ELSE /\ searchLoading' = TRUE
            /\ searchMode' = TRUE
            /\ inflight' = Issued(inflight, SearchReq(email))
            /\ last' = StepWith("search", SearchReq(email), NoResp, IF searchMode THEN "inSearchMode" ELSE "inListMode")
            /\ UNCHANGED loading
    /\ UNCHANGED <<searchTerm, candidates, page, totalPages, deletingCandidate, deleteDialogOpen, statusFilter, candSource>>

\* handleSearch, up to the fetch call (Search button, never disabled).
HandleSearch ==
    LET email == Trim(searchTerm) IN
    /\ BagCardinality(inflight) < MaxInFlight
    /\ IF email = <<>>
       THEN /\ searchMode' = FALSE
            /\ FetchCandidates(1, "handleSearch")
            /\ last' = Step("searchEmpty", ListReq(1, "handleSearch"), NoResp)
            /\ UNCHANGED searchLoading
       ELSE /\ searchLoading' = TRUE
            /\ searchMode' = TRUE
            /\ inflight' = Issued(inflight, SearchReq(email))
            /\ last' = StepWith("search", SearchReq(email), NoResp, IF searchMode THEN "inSearchMode" ELSE "inListMode")
            /\ UNCHANGED loading
    /\ UNCHANGED <<searchTerm, candidates, page, totalPages, error, deletingCandidate, deleteDialogOpen, statusFilter, candSource>>

\* handlePageChange without the newPage === page test.
HandlePageChangeRefetch(newPage) ==
    IF newPage < 1 \/ newPage > totalPages
    THEN /\ last' = Step("pageNoop", ListReq(newPage, "handlePageChange"), NoResp)
         /\ UNCHANGED <<view, inflight, candSource>>
    ELSE /\ BagCardinality(inflight) < MaxInFlight
         /\ FetchCandidates(newPage, "handlePageChange")
         /\ last' = Step("page", ListReq(newPage, "handlePageChange"), NoResp)
         /\ UNCHANGED <<searchTerm, searchMode, searchLoading, candidates, page, totalPages, error, deletingCandidate, deleteDialogOpen, statusFilter, candSource>>

\* handlePageChange
HandlePageChange(newPage) ==
    IF newPage < 1 \/ newPage > totalPages \/ newPage = page
    THEN /\ last' = Step("pageNoop", ListReq(newPage, "handlePageChange"), NoResp)
         /\ UNCHANGED <<view, inflight, candSource>>
    ELSE /\ BagCardinality(inflight) < MaxInFlight
         /\ FetchCandidates(newPage, "handlePageChange")
         /\ last' = Step("page", ListReq(newPage, "handlePageChange"), NoResp)
         /\ UNCHANGED <<searchTerm, searchMode, searchLoading, candidates, page, totalPages, error, deletingCandidate, deleteDialogOpen, statusFilter, candSource>>

\* onClick of an enabled pagination control
PageControl(newPage) ==
    /\ newPage \in PageControlTargets
    /\ HandlePageChange(newPage)

\* Recorded with a response: the row and the status of handleStatusChange
\* when that was the step before it.
EditedBefore == IF last.op = "status" THEN <<last.req.id, last.detail>> ELSE <<>>

\* Recorded with a response: whether the step before it was a response too.
AfterResponse == IF last.op \in {"listOk", "searchOk"} THEN "afterResponse" ELSE ""

\* A continuation with a sequence guard: the response to a list request is
\* dropped when a search has been issued since.
ListResolvedUnlessSearching(req, resp) ==
    /\ BagIn(req, inflight)
    /\ req.kind = "list"
    /\ IF searchMode
       THEN UNCHANGED <<candidates, totalPages, page, error, candSource>>
       ELSE /\ candidates' = CandidatesWithStatus(resp.data)
            /\ totalPages' = OrDefault(resp.pages, 1)
            /\ page' = OrDefault(resp.page, 1)
            /\ error' = Null
            /\ candSource' = "list"
    /\ loading' = FALSE
    /\ inflight' = Settled(inflight, req)
    /\ last' = [StepWith("listOk", req, resp, AfterResponse) EXCEPT !.edited = EditedBefore]
    /\ UNCHANGED <<searchTerm, searchMode, searchLoading, deletingCandidate, deleteDialogOpen, statusFilter>>

\* The .then(data => ...) and .finally of fetchCandidates.
ListResolved(req, resp) ==
    /\ BagIn(req, inflight)
    /\ req.kind = "list"
    /\ candidates' = CandidatesWithStatus(resp.data)
    /\ totalPages' = OrDefault(resp.pages, 1)
    /\ page' = OrDefault(resp.page, 1)
    /\ error' = Null
    /\ loading' = FALSE
    /\ inflight' = Settled(inflight, req)
    /\ candSource' = "list"
    /\ last' = [StepWith("listOk", req, resp, AfterResponse) EXCEPT !.edited = EditedBefore]
    /\ UNCHANGED <<searchTerm, searchMode, searchLoading, deletingCandidate, deleteDialogOpen, statusFilter>>

\* A .catch of fetchCandidates that also empties the list.
ListRejectedClearing(req) ==
    /\ BagIn(req, inflight)
    /\ req.kind = "list"
    /\ candidates' = <<>>
    /\ error' = "Failed to fetch candidates."
    /\ loading' = FALSE
    /\ inflight' = Settled(inflight, req)
    /\ last' = Step("listFail", req, NoResp)
    /\ UNCHANGED <<searchTerm, searchMode, searchLoading, page, totalPages, deletingCandidate, deleteDialogOpen, statusFilter, candSource>>

\* The .catch and .finally of fetchCandidates.
ListRejected(req) ==
    /\ BagIn(req, inflight)
    /\ req.kind = "list"
    /\ error' = "Failed to fetch candidates."
    /\ loading' = FALSE
    /\ inflight' = Settled(inflight, req)
    /\ last' = Step("listFail", req, NoResp)
    /\ UNCHANGED <<searchTerm, searchMode, searchLoading, candidates, page, totalPages, deletingCandidate, deleteDialogOpen, statusFilter, candSource>>

\* A continuation that keeps the status the table holds for a record it
\* already has.
SearchResolvedKeepingStatus(req, resp) ==
    /\ BagIn(req, inflight)
    /\ req.kind = "search"
    /\ candidates' = [i \in 1..Len(resp.data) |->
                        IF \E j \in 1..Len(candidates) : candidates[j]._id = resp.data[i]._id
                        THEN [resp.data[i] EXCEPT !.status = (CHOOSE c \in {candidates[j] : j \in 1..Len(candidates)} : c._id = resp.data[i]._id).status]
                        ELSE WithStatus(resp.data[i])]
    /\ totalPages' = 1
    /\ page' = 1
    /\ error' = Null
    /\ searchLoading' = FALSE
    /\ inflight' = Settled(inflight, req)
    /\ candSource' = "search"
    /\ last' = [StepWith("searchOk", req, resp, AfterResponse) EXCEPT !.edited = EditedBefore]
    /\ UNCHANGED <<searchTerm, searchMode, loading, deletingCandidate, deleteDialogOpen, statusFilter>>

\* The .then(data => ...) and .finally of handleSearch.
SearchResolved(req, resp) ==
    /\ BagIn(req, inflight)
    /\ req.kind = "search"
    /\ candidates' = CandidatesWithStatus(resp.data)
    /\ totalPages' = 1
    /\ page' = 1
    /\ error' = Null
    /\ searchLoading' = FALSE
    /\ inflight' = Settled(inflight, req)
    /\ candSource' = "search"
    /\ last' = [StepWith("searchOk", req, resp, AfterResponse) EXCEPT !.edited = EditedBefore]
    /\ UNCHANGED <<searchTerm, searchMode, loading, deletingCandidate, deleteDialogOpen, statusFilter>>

\* The .catch and .finally of handleSearch.
SearchRejected(req) ==
    /\ BagIn(req, inflight)
    /\ req.kind = "search"
    /\ error' = "Failed to search candidates."
    /\ searchLoading' = FALSE
    /\ inflight' = Settled(inflight, req)
    /\ last' = Step("searchFail", req, NoResp)
    /\ UNCHANGED <<searchTerm, searchMode, candidates, page, totalPages, loading, deletingCandidate, deleteDialogOpen, statusFilter, candSource>>

\* handleStatusChange, from a rendered row's status menu.
HandleStatusChange(id, newStatus) ==
    /\ RowShown(id)
    /\ candidates' = WithNewStatus(candidates, id, newStatus)
    /\ last' = StepWith("status", RowOf(id), NoResp, newStatus)
    /\ UNCHANGED <<searchTerm, searchMode, searchLoading, page, totalPages, loading, error, deletingCandidate, deleteDialogOpen, statusFilter, inflight, candSource>>

\* onOpenChange(true) of a row's AlertDialog: its trigger was clicked, no
\* dialog covering it.
OpenDeleteDialog(id) ==
    /\ RowShown(id)
    /\ ~DeleteTriggerDisabled(id)
    /\ deleteDialogOpen = Null
    /\ deleteDialogOpen' = id
    /\ last' = Step("openDialog", RowOf(id), NoResp)
    /\ UNCHANGED <<searchTerm, searchMode, searchLoading, candidates, page, totalPages, loading, error, deletingCandidate, statusFilter, inflight, candSource>>

\* onOpenChange(false) of the open AlertDialog: the dialog reports that it
\* closes (after its action or cancel button, or the Escape key).
CloseDeleteDialog ==
    /\ deleteDialogOpen # Null
    /\ deleteDialogOpen' = Null
    /\ last' = Step("closeDialog", NoReq, NoResp)
    /\ UNCHANGED <<searchTerm, searchMode, searchLoading, candidates, page, totalPages, loading, error, deletingCandidate, statusFilter, inflight, candSource>>

\* onClick of the AlertDialogAction: deleteCandidate up to the fetch call.
DeleteCandidate(candidateId) ==
    /\ RowShown(candidateId)
    /\ deleteDialogOpen = candidateId
    /\ ~DeleteActionDisabled(candidateId)
    /\ BagCardinality(inflight) < MaxInFlight
    /\ deletingCandidate' = candidateId
    /\ inflight' = Issued(inflight, DeleteReq(candidateId))
    /\ last' = Step("delete", DeleteReq(candidateId), NoResp)
    /\ UNCHANGED <<searchTerm, searchMode, searchLoading, candidates, page, totalPages, loading, error, deleteDialogOpen, statusFilter, candSource>>

\* The toast a settled delete request ends in: the success toast, or the
\* catch block's toast with the message of the Error it caught.
DeleteToasts(outcome) ==
    IF outcome = "ok"
    THEN <<Toast("Success", "Candidate deleted successfully", "default")>>
    ELSE LET message == IF outcome = "fail-message" THEN ServerMessage
                        ELSE IF outcome = "fail-nomessage" THEN "Failed to delete candidate"
                        ELSE TransportMessage
         IN  <<Toast("Error", message, "destructive")>>

\* deleteCandidate from the response on, and the onClick's
\* setDeleteDialogOpen(null) after it.
DeleteResolved(req, outcome) ==
    /\ BagIn(req, inflight)
    /\ req.kind = "delete"
    /\ candidates' = IF outcome = "ok" THEN WithoutId(candidates, req.id) ELSE candidates
    /\ deletingCandidate' = Null
    /\ deleteDialogOpen' = Null
    /\ inflight' = Settled(inflight, req)
    /\ last' = [StepWith("deleteResolved", req, NoResp, outcome) EXCEPT !.toasts = DeleteToasts(outcome)]
    /\ UNCHANGED <<searchTerm, searchMode, searchLoading, page, totalPages, loading, error, statusFilter, candSource>>

\* ------------------------------------------------- filtering: value spaces

\* The values of the status Select.
StatusFilters == {"all", "in-progress", "hold", "accepted", "rejected"}

\* A record none of whose texts holds a letter.
PlainProfile(id, st) == Profile(id, <<"-">>, <<"@">>, <<"1">>, None, None, None, None, None, st)

\* Records that hold the letter A in one searched text each, a record with
\* none in two statuses, and a record whose phone, location and skills are
\* empty.
FilterRecords ==
    {PlainProfile("none", "in-progress"), PlainProfile("held", "hold"),
     [PlainProfile("fullName", "in-progress") EXCEPT !.fullName = <<"A">>],
     [PlainProfile("email", "in-progress") EXCEPT !.email = <<"A", "@">>],
     [PlainProfile("phone", "in-progress") EXCEPT !.phone = <<"A">>],
     [PlainProfile("location", "in-progress") EXCEPT !.location = Some(<<"A">>)],
     [PlainProfile("currentTitle", "in-progress") EXCEPT !.currentTitle = Some(<<"A">>)],
     [PlainProfile("role", "in-progress") EXCEPT !.role = Some(<<"A">>)],
     [PlainProfile("technicalSkills", "in-progress") EXCEPT !.technicalSkills = Some(<<<<"-">>, <<"A">>>>)],
     [PlainProfile("softSkills", "in-progress") EXCEPT !.softSkills = Some(<<<<"A">>>>)],
     [PlainProfile("empty", "in-progress") EXCEPT !.phone = <<>>, !.location = Some(<<>>), !.technicalSkills = Some(<<>>)]}

\* Texts typed into the search box.
FilterTerms == {<<>>, <<"a">>, <<"A">>, <<"b">>}

\* ------------------------------------------------------ Interview: actions

\* What the Interview component renders: the spinner while loading, the
\* Connection Error card while error is set, the form otherwise.
InterviewRendering == IF interviewLoading THEN "loading" ELSE IF interviewError # Null THEN "error" ELSE "form"

\* disabled of the Generate Interview button
GenerateDisabledIgnoringFlag == selectedRole = "" \/ Len(selectedSkills) = 0

GenerateDisabled == selectedRole = "" \/ Len(selectedSkills) = 0 \/ isGenerating

\* fetchRoles, up to the fetch call.
FetchRoles(caller) ==
    /\ interviewLoading' = TRUE
    /\ interviewError' = Null
    /\ pending' = Issued(pending, Outstanding(RolesReq(caller)))

\* onClick of Try Again, on the Connection Error card.
TryAgain ==
    /\ InterviewRendering = "error"
    /\ FetchRoles("retry")
    /\ lastInterview' = InterviewStep("retry", RolesReq("retry"), NoGenerateResponse, <<>>, <<>>)
    /\ UNCHANGED <<uploadedFile, selectedRole, selectedSkills, complexity, questionCount, generatedQuestions, isGenerating, expandedQuestions, roles>>

\* fetchRoles from a response that is ok and parses: setRoles, finally.
FetchRolesResolved(req, shape, catalog) ==
    /\ BagIn(req, pending)
    /\ req.kind = "roles"
    /\ roles' = RolesArray(shape, catalog)
    /\ interviewLoading' = FALSE
    /\ pending' = Settled(pending, req)
    /\ lastInterview' = InterviewStep("rolesOk", req, [shape |-> shape, catalog |-> catalog], <<>>, <<>>)
    /\ UNCHANGED <<uploadedFile, selectedRole, selectedSkills, complexity, questionCount, generatedQuestions, isGenerating, expandedQuestions, interviewError>>

\* A catch block of fetchRoles that sets no error.
FetchRolesFailedSilently(req, failure) ==
    /\ BagIn(req, pending)
    /\ req.kind = "roles"
    /\ interviewLoading' = FALSE
    /\ pending' = Settled(pending, req)
    /\ lastInterview' = InterviewStep("rolesFail", req, NoGenerateResponse, <<>>, <<>>)
    /\ UNCHANGED <<uploadedFile, selectedRole, selectedSkills, complexity, questionCount, generatedQuestions, isGenerating, expandedQuestions, roles, interviewError>>

\* fetchRoles from a rejected fetch, a response that is not ok or a body
\* that does not parse: catch, finally.
FetchRolesFailed(req, failure) ==
    /\ BagIn(req, pending)
    /\ req.kind = "roles"
    /\ interviewError' = "Failed to fetch roles. Please check if the API server is running."
    /\ interviewLoading' = FALSE
    /\ pending' = Settled(pending, req)
    /\ lastInterview' = InterviewStep("rolesFail", req, NoGenerateResponse, <<Toast("Error", <<"Failed to fetch roles. Please try again.">>, "destructive")>>, <<>>)
    /\ UNCHANGED <<uploadedFile, selectedRole, selectedSkills, complexity, questionCount, generatedQuestions, isGenerating, expandedQuestions, roles>>

\* handleFileUpload, onChange of the form's file input.
HandleFileUpload(file) ==
    /\ InterviewRendering = "form"
    /\ IF file # NoFile
       THEN /\ uploadedFile' = file
            /\ lastInterview' = InterviewStep("upload", NoInterviewReq, NoGenerateResponse, <<Toast("Resume uploaded", <<file, " has been uploaded successfully.">>, "default")>>, <<>>)
       ELSE /\ UNCHANGED uploadedFile
            /\ lastInterview' = InterviewStep("upload", NoInterviewReq, NoGenerateResponse, <<>>, <<>>)
    /\ UNCHANGED <<selectedRole, selectedSkills, complexity, questionCount, generatedQuestions, isGenerating, expandedQuestions, roles, interviewLoading, interviewError, pending>>

\* onValueChange of the role Select: setSelectedRole with a listed role's _id.
\* A role change that also clears the selected skills.
SetSelectedRoleClearingSkills(id) ==
    /\ InterviewRendering = "form"
    /\ FindRole(roles, id) # <<>>
    /\ selectedRole' = id
    /\ selectedSkills' = <<>>
    /\ lastInterview' = InterviewStepOn("selectRole", id)
    /\ UNCHANGED <<uploadedFile, complexity, questionCount, generatedQuestions, isGenerating, expandedQuestions, roles, interviewLoading, interviewError, pending>>

\* onValueChange of the role Select
SetSelectedRole(id) ==
    /\ InterviewRendering = "form"
    /\ FindRole(roles, id) # <<>>
    /\ selectedRole' = id
    /\ lastInterview' = InterviewStepOn("selectRole", id)
    /\ UNCHANGED <<uploadedFile, selectedSkills, complexity, questionCount, generatedQuestions, isGenerating, expandedQuestions, roles, interviewLoading, interviewError, pending>>

\* toggleSkill, onClick of a rendered skill Badge.
ToggleSkill(skill) ==
    /\ InterviewRendering = "form"
    /\ selectedRole # ""
    /\ IncludesSkill(AvailableSkillsOf(roles, selectedRole), skill)
    /\ selectedSkills' = ToggledSkill(selectedSkills, skill)
    /\ lastInterview' = InterviewStepOn("toggleSkill", skill)
    /\ UNCHANGED <<uploadedFile, selectedRole, complexity, questionCount, generatedQuestions, isGenerating, expandedQuestions, roles, interviewLoading, interviewError, pending>>

\* onValueChange of the complexity Slider
SetComplexity(value) ==
    /\ InterviewRendering = "form"
    /\ complexity' = value
    /\ lastInterview' = InterviewStepOn("setComplexity", value)
    /\ UNCHANGED <<uploadedFile, selectedRole, selectedSkills, questionCount, generatedQuestions, isGenerating, expandedQuestions, roles, interviewLoading, interviewError, pending>>

\* onChange of the count's range Input
SetQuestionCount(value) ==
    /\ InterviewRendering = "form"
    /\ questionCount' = value
    /\ lastInterview' = InterviewStepOn("setQuestionCount", value)
    /\ UNCHANGED <<uploadedFile, selectedRole, selectedSkills, complexity, generatedQuestions, isGenerating, expandedQuestions, roles, interviewLoading, interviewError, pending>>

\* The label and the description rendered under the Slider.
complexityLabel == GetComplexityLabel(complexity)

complexityDescription == GetComplexityDescription(complexity)

\* disabled of the - and + buttons
DecrementDisabled == questionCount <= 1

IncrementDisabled == questionCount >= 20

\* A - handler without Math.max.
DecrementCountUnclamped ==
    /\ InterviewRendering = "form"
    /\ questionCount' = questionCount - 1
    /\ lastInterview' = InterviewStepOn("decrement", questionCount)
    /\ UNCHANGED <<uploadedFile, selectedRole, selectedSkills, complexity, generatedQuestions, isGenerating, expandedQuestions, roles, interviewLoading, interviewError, pending>>

\* The onClick handler of the - button.
DecrementCount ==
    /\ InterviewRendering = "form"
    /\ questionCount' = MathMax(1, questionCount - 1)
    /\ lastInterview' = InterviewStepOn("decrement", questionCount)
    /\ UNCHANGED <<uploadedFile, selectedRole, selectedSkills, complexity, generatedQuestions, isGenerating, expandedQuestions, roles, interviewLoading, interviewError, pending>>

\* The onClick handler of the + button.
IncrementCount ==
    /\ InterviewRendering = "form"
    /\ questionCount' = MathMin(20, questionCount + 1)
    /\ lastInterview' = InterviewStepOn("increment", questionCount)
    /\ UNCHANGED <<uploadedFile, selectedRole, selectedSkills, complexity, generatedQuestions, isGenerating, expandedQuestions, roles, interviewLoading, interviewError, pending>>

\* A click on the - button, on the + button.
DecrementClick == ~DecrementDisabled /\ DecrementCount

IncrementClick == ~IncrementDisabled /\ IncrementCount

\* The request generateQuestions builds from the state it closes over.
formData == GenerateReq(RoleNameOf(roles, selectedRole), JsonStringify(selectedSkills), ToString(complexity), ToString(questionCount), uploadedFile)

\* generateQuestions that tests the role only.
GenerateQuestionsRoleOnly ==
    IF selectedRole = ""
    THEN /\ lastInterview' = InterviewStep("generateInvalid", NoInterviewReq, NoGenerateResponse, <<Toast("Missing requirements", <<"Please select a role and at least one skill.">>, "destructive")>>, generatedQuestions)
         /\ UNCHANGED <<interviewView, pending>>
    ELSE /\ BagCardinality(pending) < MaxInFlight
         /\ isGenerating' = TRUE
         /\ generatedQuestions' = <<>>
         /\ pending' = Issued(pending, Outstanding(formData))
         /\ lastInterview' = InterviewStep("generate", formData, NoGenerateResponse, <<>>, generatedQuestions)
         /\ UNCHANGED <<uploadedFile, selectedRole, selectedSkills, complexity, questionCount, expandedQuestions, roles, interviewLoading, interviewError>>

\* generateQuestions, up to the fetch call.
GenerateQuestions ==
    IF selectedRole = "" \/ Len(selectedSkills) = 0
    THEN /\ lastInterview' = InterviewStep("generateInvalid", NoInterviewReq, NoGenerateResponse, <<Toast("Missing requirements", <<"Please select a role and at least one skill.">>, "destructive")>>, generatedQuestions)
         /\ UNCHANGED <<interviewView, pending>>
    ELSE /\ BagCardinality(pending) < MaxInFlight
         /\ isGenerating' = TRUE
         /\ generatedQuestions' = <<>>
         /\ pending' = Issued(pending, Outstanding(formData))
         /\ lastInterview' = InterviewStep("generate", formData, NoGenerateResponse, <<>>, generatedQuestions)
         /\ UNCHANGED <<uploadedFile, selectedRole, selectedSkills, complexity, questionCount, expandedQuestions, roles, interviewLoading, interviewError>>

\* onClick of the Generate Interview button
GenerateClick ==
    /\ InterviewRendering = "form"
    /\ ~GenerateDisabled
    /\ GenerateQuestions

\* generateQuestions from a response that is ok and parses: the transform,
\* setGeneratedQuestions, the toast, finally.
GenerateResolved(req, resp) ==
    /\ BagIn(req, pending)
    /\ req.kind = "generate"
    /\ generatedQuestions' = TransformedQuestions(QuestionsOf(resp))
    /\ isGenerating' = FALSE
    /\ pending' = Settled(pending, req)
    /\ lastInterview' = InterviewStep("generateOk", req, resp, <<Toast("Questions generated", <<ToString(Len(TransformedQuestions(QuestionsOf(resp)))), " questions have been generated based on your selections.">>, "default")>>, <<>>)
    /\ UNCHANGED <<uploadedFile, selectedRole, selectedSkills, complexity, questionCount, expandedQuestions, roles, interviewLoading, interviewError>>

\* A generateQuestions without its finally block.
GenerateFailedNoFinally(req, failure) ==
    /\ BagIn(req, pending)
    /\ req.kind = "generate"
    /\ pending' = Settled(pending, req)
    /\ lastInterview' = InterviewStep("generateFail", req, NoGenerateResponse, <<Toast("Error", <<"Failed to generate questions. Please try again.">>, "destructive")>>, <<>>)
    /\ UNCHANGED <<uploadedFile, selectedRole, selectedSkills, complexity, questionCount, generatedQuestions, isGenerating, expandedQuestions, roles, interviewLoading, interviewError>>

\* generateQuestions from a rejected fetch, a response that is not ok or a
\* body that does not parse: catch, finally.
GenerateFailed(req, failure) ==
    /\ BagIn(req, pending)
    /\ req.kind = "generate"
    /\ isGenerating' = FALSE
    /\ pending' = Settled(pending, req)
    /\ lastInterview' = InterviewStep("generateFail", req, NoGenerateResponse, <<Toast("Error", <<"Failed to generate questions. Please try again.">>, "destructive")>>, <<>>)
    /\ UNCHANGED <<uploadedFile, selectedRole, selectedSkills, complexity, questionCount, generatedQuestions, expandedQuestions, roles, interviewLoading, interviewError>>

\* toggleQuestion, onOpenChange of a rendered question's Collapsible.
ToggleQuestion(questionIndex) ==
    /\ InterviewRendering = "form"
    /\ questionIndex \in 0..(Len(generatedQuestions) - 1)
    /\ expandedQuestions' = ToggledQuestion(expandedQuestions, questionIndex)
    /\ lastInterview' = InterviewStepOn("toggleQuestion", questionIndex)
    /\ UNCHANGED <<uploadedFile, selectedRole, selectedSkills, complexity, questionCount, generatedQuestions, isGenerating, roles, interviewLoading, interviewError, pending>>

\* resetForm without its setQuestionCount(10).
ResetFormKeepingCount ==
    /\ uploadedFile' = Null
    /\ selectedRole' = ""
    /\ selectedSkills' = <<>>
    /\ complexity' = 50
    /\ generatedQuestions' = <<>>
    /\ expandedQuestions' = {}
    /\ lastInterview' = InterviewStep("reset", NoInterviewReq, NoGenerateResponse, <<>>, <<>>)
    /\ UNCHANGED <<questionCount, isGenerating, roles, interviewLoading, interviewError, pending>>

\* resetForm, onClick of Reset (rendered in the header of all three views).
ResetForm ==
    /\ uploadedFile' = Null
    /\ selectedRole' = ""
    /\ selectedSkills' = <<>>
    /\ complexity' = 50
    /\ questionCount' = 10
    /\ generatedQuestions' = <<>>
    /\ expandedQuestions' = {}
    /\ lastInterview' = InterviewStep("reset", NoInterviewReq, NoGenerateResponse, <<>>, <<>>)
    /\ UNCHANGED <<isGenerating, roles, interviewLoading, interviewError, pending>>

\* --------------------------------------------------------- specifications

\* Loading the list: the search box, handleSearch and the continuations of
\* the list and search requests, over the terms and response bodies given.
\* No step of the Candidates component touches the Interview component.
FetchNext(terms, listResps, searchResps) ==
    \/ \E value \in terms : SetSearchTerm(value) /\ UNCHANGED ivars
    \/ ClearSearch /\ UNCHANGED ivars
    \/ HandleSearch /\ UNCHANGED ivars
    \/ \E req \in BagToSet(inflight) : \E resp \in listResps : ListResolved(req, resp) /\ UNCHANGED ivars
    \/ \E req \in BagToSet(inflight) : ListRejected(req) /\ UNCHANGED ivars
    \/ \E req \in BagToSet(inflight) : \E resp \in searchResps : SearchResolved(req, resp) /\ UNCHANGED ivars
    \/ \E req \in BagToSet(inflight) : SearchRejected(req) /\ UNCHANGED ivars

\* A row's status menu, over the menu items given.
StatusNext(statuses) == \E id \in Ids : \E newStatus \in statuses : HandleStatusChange(id, newStatus) /\ UNCHANGED ivars

\* A row's delete dialog and the continuation of its delete request.
DeleteNext ==
    \/ \E id \in Ids : OpenDeleteDialog(id) /\ UNCHANGED ivars
    \/ CloseDeleteDialog /\ UNCHANGED ivars
    \/ \E id \in Ids : DeleteCandidate(id) /\ UNCHANGED ivars
    \/ \E req \in BagToSet(inflight) : \E outcome \in DeleteOutcomes : DeleteResolved(req, outcome) /\ UNCHANGED ivars

\* Loading, searching and paging the list through the rendered controls,
\* with paged list responses of at most one record. The row controls are
\* left to RowSpec and StatusSpec: they write candidates, deletingCandidate
\* and deleteDialogOpen only, which no guard or assignment here reads but
\* ClearSearchShown, and an empty response empties the list as they can.
\* The Interview component stays as mounted.
Next ==
    \/ FetchNext(SearchTerms, ListResponses(PageBodies), SearchResponses(PageBodies))
    \/ \E newPage \in 0..(MaxPages + 1) : PageControl(newPage) /\ UNCHANGED ivars

Spec == Init /\ [][Next]_<<vars, ivars>>

\* The same, and handlePageChange called with any page number.
ApiNext ==
    \/ Next
    \/ \E newPage \in 0..(MaxPages + 1) : HandlePageChange(newPage) /\ UNCHANGED ivars

ApiSpec == Init /\ [][ApiNext]_<<vars, ivars>>

\* One page of rows and their controls: every body of up to MaxData records,
\* list responses without pagination (so no pagination controls), a status
\* menu of one item.
RowNext ==
    \/ FetchNext({<<>>, <<"a">>}, UnpagedResponses(AllBodies), SearchResponses(AllBodies))
    \/ StatusNext({"accepted"})
    \/ DeleteNext

RowSpec == Init /\ [][RowNext]_<<vars, ivars>>

\* The rows' status menus, whole, over the same responses.
StatusSpecNext ==
    \/ FetchNext({<<>>, <<"a">>}, UnpagedResponses(AllBodies), SearchResponses(AllBodies))
    \/ StatusNext(StatusMenuItems)

StatusSpec == Init /\ [][StatusSpecNext]_<<vars, ivars>>

\* The Candidates component with a list on display and nothing outstanding:
\* any sequence of up to MaxData records, any text in the search box, any
\* status selected, in either mode.
FilterInit ==
    /\ InterviewInit
    /\ searchTerm \in FilterTerms
    /\ searchMode \in BOOLEAN
    /\ searchLoading = FALSE
    /\ candidates \in SeqsUpTo(FilterRecords, MaxData)
    /\ page = 1
    /\ totalPages = 1
    /\ loading = FALSE
    /\ error = Null
    /\ deletingCandidate = Null
    /\ deleteDialogOpen = Null
    /\ statusFilter \in StatusFilters
    /\ inflight = EmptyBag
    /\ candSource = (IF searchMode THEN "search" ELSE "list")
    /\ last = Step("loaded", NoReq, NoResp)

\* The search box and the status Select over that list.
FilterNext ==
    \/ \E value \in FilterTerms : SetSearchTerm(value) /\ UNCHANGED ivars
    \/ \E status \in StatusFilters : SetStatusFilter(status) /\ UNCHANGED ivars
    \/ ClearSearch /\ UNCHANGED ivars

FilterSpec == FilterInit /\ [][FilterNext]_<<vars, ivars>>

\* The Interview component through its rendered controls and the
\* continuations of its two requests; the Candidates component stays as
\* mounted.
InterviewNext ==
    \/ TryAgain /\ UNCHANGED vars
    \/ \E req \in BagToSet(pending) : \E shape \in CatalogShapes : \E catalog \in Catalogs : FetchRolesResolved(req, shape, catalog) /\ UNCHANGED vars
    \/ \E req \in BagToSet(pending) : \E failure \in Failures : FetchRolesFailed(req, failure) /\ UNCHANGED vars
    \/ \E file \in Files \cup {NoFile} : HandleFileUpload(file) /\ UNCHANGED vars
    \/ \E id \in {RoleA._id, RoleB._id} : SetSelectedRole(id) /\ UNCHANGED vars
    \/ \E skill \in {"s1", "s2"} : ToggleSkill(skill) /\ UNCHANGED vars
    \/ \E value \in SliderValues : SetComplexity(value) /\ UNCHANGED vars
    \/ \E value \in RangeValues : SetQuestionCount(value) /\ UNCHANGED vars
    \/ GenerateClick /\ UNCHANGED vars
    \/ \E req \in BagToSet(pending) : \E resp \in GenerateResponses : GenerateResolved(req, resp) /\ UNCHANGED vars
    \/ \E req \in BagToSet(pending) : \E failure \in Failures : GenerateFailed(req, failure) /\ UNCHANGED vars
    \/ \E questionIndex \in 0..(MaxQuestions - 1) : ToggleQuestion(questionIndex) /\ UNCHANGED vars
    \/ ResetForm /\ UNCHANGED vars

InterviewSpec == Init /\ [][InterviewNext]_<<vars, ivars>>

\* Pages of at most one row with the rows' controls: list responses whose
\* pagination is in range, handlePageChange called with any page number
\* (the pagination controls' clicks among them), a status menu of one item,
\* and delete with a response that succeeds or a fetch that rejects.
PageRangeNext ==
    \/ FetchNext({<<>>, <<"a">>}, PagedResponses(HoldBodies), SearchResponses(HoldBodies))
    \/ \E newPage \in 0..(MaxPages + 1) : HandlePageChange(newPage) /\ UNCHANGED ivars
    \/ StatusNext({"accepted"})
    \/ \E id \in Ids : OpenDeleteDialog(id) /\ UNCHANGED ivars
    \/ \E id \in Ids : DeleteCandidate(id) /\ UNCHANGED ivars
    \/ \E req \in BagToSet(inflight) : \E outcome \in {"ok", "reject"} : DeleteResolved(req, outcome) /\ UNCHANGED ivars

PageRangeSpec == Init /\ [][PageRangeNext]_<<vars, ivars>>

\* One page of at most one row with its controls and the status Select:
\* unpaged list responses, search, a status menu of one item, delete with a
\* response that succeeds or a fetch that rejects, three values of the
\* status filter.
ErrorNext ==
    \/ FetchNext({<<>>, <<"a">>}, UnpagedResponses(HoldBodies), SearchResponses(HoldBodies))
    \/ StatusNext({"accepted"})
    \/ \E status \in {"all", "hold", "accepted"} : SetStatusFilter(status) /\ UNCHANGED ivars
    \/ \E id \in Ids : OpenDeleteDialog(id) /\ UNCHANGED ivars
    \/ \E id \in Ids : DeleteCandidate(id) /\ UNCHANGED ivars
    \/ \E req \in BagToSet(inflight) : \E outcome \in {"ok", "reject"} : DeleteResolved(req, outcome) /\ UNCHANGED ivars

ErrorSpec == Init /\ [][ErrorNext]_<<vars, ivars>>

\* Both components, each with the steps that issue its requests and the
\* continuations of every request, successful and failed: one search term,
\* one list and one search body, one catalog, one role and skill, one
\* generation response.
LiveIssue ==
    \/ SetSearchTerm(<<"a">>) /\ UNCHANGED ivars
    \/ HandleSearch /\ UNCHANGED ivars
    \/ \E id \in Ids : OpenDeleteDialog(id) /\ UNCHANGED ivars
    \/ \E id \in Ids : DeleteCandidate(id) /\ UNCHANGED ivars
    \/ TryAgain /\ UNCHANGED vars
    \/ SetSelectedRole(RoleA._id) /\ UNCHANGED vars
    \/ ToggleSkill("s1") /\ UNCHANGED vars
    \/ GenerateClick /\ UNCHANGED vars

\* A request resolves: its promise's continuation runs.
LiveResolve ==
    \/ \E req \in BagToSet(inflight) : ListResolved(req, [data |-> <<ServerRecord("b", "hold")>>, page |-> 0, pages |-> 0]) /\ UNCHANGED ivars
    \/ \E req \in BagToSet(inflight) : ListRejected(req) /\ UNCHANGED ivars
    \/ \E req \in BagToSet(inflight) : SearchResolved(req, [data |-> <<>>, page |-> 0, pages |-> 0]) /\ UNCHANGED ivars
    \/ \E req \in BagToSet(inflight) : SearchRejected(req) /\ UNCHANGED ivars
    \/ \E req \in BagToSet(inflight) : \E outcome \in {"ok", "reject"} : DeleteResolved(req, outcome) /\ UNCHANGED ivars
    \/ \E req \in BagToSet(pending) : FetchRolesResolved(req, "wrapped", <<RoleA, RoleB>>) /\ UNCHANGED vars
    \/ \E req \in BagToSet(pending) : FetchRolesFailed(req, "reject") /\ UNCHANGED vars
    \/ \E req \in BagToSet(pending) : GenerateResolved(req, [hasData |-> TRUE, questions |-> <<QuestionA>>]) /\ UNCHANGED vars
    \/ \E req \in BagToSet(pending) : GenerateFailed(req, "reject") /\ UNCHANGED vars

LiveNext == LiveIssue \/ LiveResolve

\* Every issued request eventually resolves: while a request is outstanding
\* some continuation eventually runs.
LiveSpec == Init /\ [][LiveNext]_<<vars, ivars>> /\ WF_<<vars, ivars>>(LiveResolve)

\* limit=5 of the list request's URL
PageLimit == 5

\* A server that holds twelve candidates, none with a status, and answers a
\* list request for a page with that page of PageLimit records and the
\* pagination {page, pages}.
ScenarioIds == 1..12

ScenarioRecord(i) == ServerRecord(ToString(i), NoStatus)

ScenarioPages == (Cardinality(ScenarioIds) + PageLimit - 1) \div PageLimit

ScenarioPage(pageNum) ==
    LET first == (pageNum - 1) * PageLimit + 1
        lastId == MathMin(pageNum * PageLimit, Cardinality(ScenarioIds))
    IN  [data |-> [i \in 1..(lastId - first + 1) |-> ScenarioRecord(first + i - 1)],
         page |-> pageNum, pages |-> ScenarioPages]

\* The list against that server: every list request is answered with its
\* page, and handlePageChange is called with every page number from 0 to one
\* past the last page.
PagedNext ==
    \/ \E req \in BagToSet(inflight) : ListResolved(req, ScenarioPage(req.pageNum)) /\ UNCHANGED ivars
    \/ \E newPage \in 0..(ScenarioPages + 1) : HandlePageChange(newPage) /\ UNCHANGED ivars

PagedSpec == Init /\ [][PagedNext]_<<vars, ivars>>

\* The Interview settings: the Slider and the range Input over all the values
\* they can hand over, the count buttons (clicked, and their handlers run
\* whatever the buttons' state), Reset, and the catalog's first load.
SettingsNext ==
    \/ \E req \in BagToSet(pending) : \E catalog \in Catalogs : FetchRolesResolved(req, "wrapped", catalog) /\ UNCHANGED vars
    \/ \E value \in SliderRange : SetComplexity(value) /\ UNCHANGED vars
    \/ \E value \in CountRange : SetQuestionCount(value) /\ UNCHANGED vars
    \/ DecrementClick /\ UNCHANGED vars
    \/ IncrementClick /\ UNCHANGED vars
    \/ DecrementCount /\ UNCHANGED vars
    \/ IncrementCount /\ UNCHANGED vars
    \/ ResetForm /\ UNCHANGED vars

SettingsSpec == Init /\ [][SettingsNext]_<<vars, ivars>>

\* The same, and generateQuestions called whatever the button's state.
InterviewApiNext ==
    \/ InterviewNext
    \/ GenerateQuestions /\ UNCHANGED vars

InterviewApiSpec == Init /\ [][InterviewApiNext]_<<vars, ivars>>

\* ----------------------------------------------------------------- claims

\* The records a response's data stands for: each with its status, or
\* in-progress when it carries none.
ExpectedRecords(data) == [i \in 1..Len(data) |-> [_id |-> data[i]._id, fullName |-> data[i].fullName, email |-> data[i].email, phone |-> data[i].phone, location |-> data[i].location, currentTitle |-> data[i].currentTitle, role |-> data[i].role, technicalSkills |-> data[i].technicalSkills, softSkills |-> data[i].softSkills, status |-> IF data[i].status = NoStatus THEN "in-progress" ELSE data[i].status]]

\* How many delete requests for id are outstanding.
DeletesInFlight(id) == CopiesIn(DeleteReq(id), inflight)

\* C1: once candidates has been loaded, search-mode true means it holds a
\* search response's result set and search-mode false means it holds a page
\* fetch's result set, in every reachable state (also while a search is
\* outstanding and after a failed search).
C1_ModeMatchesSource ==
    /\ searchMode => candSource = "search"
    /\ (~searchMode /\ candSource # "none") => candSource = "list"

\* C2: when the list request handlePageChange issued for page n resolves
\* successfully, the server answering with page n, the state has page = n
\* and search-mode false.
C2_PageLoadedNotSearchMode ==
    (last.op = "listOk" /\ last.req.caller = "handlePageChange" /\ last.resp.page = last.req.pageNum)
        => (page = last.req.pageNum /\ ~searchMode)

\* C3: when a search request (non-empty trimmed query) resolves successfully,
\* search-mode is true, page = 1, totalPages = 1 and candidates is exactly
\* the response's records.
C3_SearchLoaded ==
    last.op = "searchOk"
        => /\ searchMode
           /\ page = 1
           /\ totalPages = 1
           /\ candidates = ExpectedRecords(last.resp.data)

\* C4: handleSearch with an empty or whitespace-only term issues no search
\* request, sets search-mode false and issues a list fetch of page 1,
\* whatever the current page; when that fetch succeeds candidates is the
\* response's records.
C4_EmptySearchReloadsPageOne ==
    [][/\ (last'.op \in {"search", "searchEmpty"} /\ \A k \in 1..Len(searchTerm) : searchTerm[k] = " ")
            => /\ ~searchMode'
               /\ inflight' = Issued(inflight, ListReq(1, "handleSearch"))
               /\ loading'
               /\ searchLoading' = searchLoading
       /\ (last'.op = "listOk" /\ last'.req.caller = "handleSearch")
            => /\ last'.req.pageNum = 1
               /\ candidates' = ExpectedRecords(last'.resp.data)]_vars

\* A whitespace-only search has just been issued on page 1, in search mode
\* until then.
C4_Witness ==
    /\ last.op = "searchEmpty"
    /\ searchTerm = <<" ">>
    /\ page = 1
    /\ candSource = "search"

\* C5: handlePageChange(n) with n < 1, n > totalPages or n = page issues no
\* request and leaves every state variable of the component unchanged.
C5_PageChangeNoop ==
    [][(/\ last'.op \in {"page", "pageNoop"}
        /\ (last'.req.pageNum < 1 \/ last'.req.pageNum > totalPages \/ last'.req.pageNum = page))
            => UNCHANGED <<view, inflight>>]_vars

\* handlePageChange has just been called with a page number below 1.
C5_Witness == last.op = "pageNoop" /\ last.req.pageNum < 1 /\ totalPages > 1

\* C6: a delete of id that resolves with success removes exactly the records
\* whose _id is id from the current candidates, the others staying in order;
\* one that resolves with a failure leaves candidates unchanged.
C6_DeleteRemovesExactlyId ==
    [][last'.op = "deleteResolved"
            => IF last'.detail = "ok"
               THEN candidates' = SelectSeq(candidates, LAMBDA c : c._id # last'.req.id)
               ELSE candidates' = candidates]_vars

\* A delete has just succeeded and the other record stayed.
C6_Witness ==
    /\ last.op = "deleteResolved"
    /\ last.detail = "ok"
    /\ Len(candidates) = 1
    /\ candidates[1]._id # last.req.id

\* C7: for every record id, at most one delete request is outstanding.
C7_OneDeletePerId == \A id \in Ids : DeletesInFlight(id) <= 1

\* C8: a record's delete control is disabled by deletingCandidate exactly
\* while a delete request for its id is outstanding.
C8_DeletingTracksInFlight == \A id \in Ids : (deletingCandidate = id) <=> (DeletesInFlight(id) > 0)

\* C9: handleStatusChange(id, s) sets the status of the records whose _id is
\* id to s, changes no other record and no other field, keeps length and
\* order, and s is one of the four statuses.
C9_StatusChangeOnlyId ==
    [][last'.op = "status"
            => /\ last'.detail \in CandidateStatus
               /\ Len(candidates') = Len(candidates)
               /\ \A i \in 1..Len(candidates) :
                    /\ candidates'[i]._id = candidates[i]._id
                    /\ candidates'[i].fullName = candidates[i].fullName
                    /\ DOMAIN candidates'[i] = DOMAIN candidates[i]
                    /\ candidates'[i].status = IF candidates[i]._id = last'.req.id THEN last'.detail ELSE candidates[i].status
               /\ UNCHANGED <<searchTerm, searchMode, searchLoading, page, totalPages, loading, error, deletingCandidate, deleteDialogOpen, statusFilter, inflight>>]_vars

\* The status of one of two records has just been changed, the other record
\* keeping a different status.
C9_Witness ==
    /\ last.op = "status"
    /\ Len(candidates) = 2
    /\ \E i, j \in 1..2 :
        /\ candidates[i]._id = last.req.id
        /\ candidates[i].status = last.detail
        /\ candidates[j]._id # last.req.id
        /\ candidates[j].status # last.detail

\* C10: every record of candidates has one of the four statuses.
C10_StatusInEnum == \A i \in 1..Len(candidates) : candidates[i].status \in CandidateStatus

\* A list response with a record without status has just been loaded.
C10_Witness ==
    /\ last.op = "listOk"
    /\ \E i \in 1..Len(last.resp.data) : last.resp.data[i].status = NoStatus /\ candidates[i].status = "in-progress"

\* C11: when a page-fetch request fails (rejected fetch or a body that does
\* not parse), error is set to a non-null message, loading is cleared, and
\* candidates, page, totalPages and searchMode keep the values they had
\* before the response.
C11_ListFailureKeepsData ==
    [][last'.op = "listFail" =>
          /\ error' # Null
          /\ ~loading'
          /\ UNCHANGED <<candidates, page, totalPages, searchMode>>]_vars

\* A page fetch failed with a record on display.
C11_Witness == last.op = "listFail" /\ Len(candidates) > 0 /\ error # Null /\ ~loading

\* C12: when a search with a non-empty term fails, candidates, page,
\* totalPages and searchMode have the values they had before handleSearch was
\* invoked, searchLoading is cleared and error is set. Stated for a failure
\* that is handled right after the invocation, whose step recorded the mode
\* it was invoked in.
C12_FailedSearchRestores ==
    [][(last.op = "search" /\ last'.op = "searchFail" /\ last'.req = last.req) =>
          /\ searchMode' = (last.detail = "inSearchMode")
          /\ UNCHANGED <<candidates, page, totalPages>>
          /\ ~searchLoading'
          /\ error' # Null]_vars

\* C13: when a delete request fails, the record stays in candidates, the
\* delete-in-flight marker is cleared, and exactly one toast is emitted: an
\* error toast whose text is the server's message when the response carries
\* one and "Failed to delete candidate" otherwise; no success toast.
C13_DeleteFailureNotifies ==
    [][(last'.op = "deleteResolved" /\ last'.detail # "ok") =>
          /\ candidates' = candidates
          /\ deletingCandidate' = Null
          /\ last'.toasts = <<Toast("Error", IF last'.detail = "fail-message" THEN ServerMessage ELSE "Failed to delete candidate", "destructive")>>]_vars

\* C14: when a generation request fails, an error toast is emitted and
\* generatedQuestions is what it was before generateQuestions was invoked.
\* Stated for a failure handled right after the invocation, whose step
\* recorded the generatedQuestions it was invoked with.
C14_FailedGenerateKeepsQuestions ==
    [][(lastInterview.op = "generate" /\ lastInterview'.op = "generateFail") =>
          /\ Len(lastInterview'.toasts) = 1
          /\ lastInterview'.toasts[1].variant = "destructive"
          /\ generatedQuestions' = lastInterview.before]_ivars

\* C15: generateQuestions invoked with no role selected or with no skill
\* selected issues no request, emits the validation toast, leaves isGenerating
\* as it is and leaves generatedQuestions unchanged.
C15_InvalidGenerateAborts ==
    [][(lastInterview'.op \in {"generate", "generateInvalid"} /\ (selectedRole = "" \/ selectedSkills = <<>>)) =>
          /\ pending' = pending
          /\ Len(lastInterview'.toasts) = 1
          /\ lastInterview'.toasts[1].title = "Missing requirements"
          /\ lastInterview'.toasts[1].variant = "destructive"
          /\ isGenerating' = isGenerating
          /\ generatedQuestions' = generatedQuestions]_ivars

\* generateQuestions was invoked with a role but no skill, questions on display.
C15_Witness == lastInterview.op = "generateInvalid" /\ selectedRole # "" /\ selectedSkills = <<>> /\ Len(generatedQuestions) > 0

\* C16: every generation request that is submitted carries a selected role
\* and a skill list that is a non-empty subset of that role's skills.
C16_SubmittedSkillsOfRole ==
    lastInterview.op = "generate" =>
        /\ lastInterview.req.role # ""
        /\ lastInterview.req.skills.json # <<>>
        /\ \E i \in 1..Len(roles) :
              /\ roles[i].role = lastInterview.req.role
              /\ \A k \in 1..Len(lastInterview.req.skills.json) :
                    \E j \in 1..Len(roles[i].skills) : roles[i].skills[j] = lastInterview.req.skills.json[k]

\* The generation requests issued and not yet handled.
GenerationsPending == CopiesIn([kind |-> "generate", caller |-> ""], pending)

\* C17: isGenerating is true exactly while a generation request is
\* outstanding, no generation is started from the button while it is true,
\* and so at most one generation request is outstanding.
C17_OneGenerationAtATime ==
    [][/\ isGenerating' <=> (GenerationsPending' > 0)
       /\ GenerationsPending' <= 1
       /\ isGenerating => lastInterview'.op # "generate"]_ivars

\* A generation is outstanding.
C17_Witness == isGenerating /\ GenerationsPending = 1 /\ lastInterview.op = "generate"

\* C18: when a generation request succeeds, generatedQuestions becomes the
\* response's question list, same length and order (empty when the body has
\* none), and the success toast is emitted; a request, when issued, carries
\* the selected role's name, the selected skills, the complexity, the count,
\* and the file exactly when one is stored.
C18_GenerateSuccess ==
    [][/\ lastInterview'.op = "generateOk" =>
             /\ generatedQuestions' = (IF lastInterview'.resp.hasData THEN lastInterview'.resp.questions ELSE <<>>)
             /\ Len(lastInterview'.toasts) = 1
             /\ lastInterview'.toasts[1].title = "Questions generated"
             /\ lastInterview'.toasts[1].variant = "default"
       /\ lastInterview'.op = "generate" =>
             /\ \E i \in 1..Len(roles) : roles[i]._id = selectedRole /\ roles[i].role = lastInterview'.req.role
             /\ lastInterview'.req.skills = [json |-> selectedSkills]
             /\ lastInterview'.req.questionComplexity = ToString(complexity)
             /\ lastInterview'.req.numberOfQuestions = ToString(questionCount)
             /\ lastInterview'.req.pdf = uploadedFile
             /\ (lastInterview'.req.pdf # Null) <=> (uploadedFile # Null)]_ivars

\* A response of two different questions was loaded.
C18_Witness == lastInterview.op = "generateOk" /\ Len(generatedQuestions) = 2 /\ generatedQuestions[1] # generatedQuestions[2] /\ uploadedFile # Null

\* C19: resetForm yields role "", no skills, complexity 50, count 10, no
\* questions, no file and no expanded index, issues no request, and leaves
\* roles, the catalog's loading flag and its error unchanged.
C19_ResetDefaults ==
    [][lastInterview'.op = "reset" =>
          /\ selectedRole' = ""
          /\ selectedSkills' = <<>>
          /\ complexity' = 50
          /\ questionCount' = 10
          /\ generatedQuestions' = <<>>
          /\ uploadedFile' = Null
          /\ expandedQuestions' = {}
          /\ pending' = pending
          /\ UNCHANGED <<roles, interviewLoading, interviewError>>]_ivars

\* Reset ran while a generation was outstanding.
C19_Witness == lastInterview.op = "reset" /\ isGenerating /\ roles # <<>> /\ questionCount = 10

\* C20: a failed catalog fetch leaves error set, loading false and roles
\* unchanged; the error stays under every operation but Try Again; Try Again
\* issues the catalog fetch again; and a success then sets roles from the
\* response, with error null and loading false.
C20_CatalogErrorPersists ==
    [][/\ lastInterview'.op = "rolesFail" =>
             (interviewError' # Null /\ ~interviewLoading' /\ roles' = roles)
       /\ (interviewError # Null /\ lastInterview'.op # "retry") =>
             (interviewError' = interviewError /\ ~interviewLoading' /\ roles' = roles)
       /\ lastInterview'.op = "retry" =>
             (interviewError # Null /\ interviewLoading' /\ pending' = pending (+) SetToBag({[kind |-> "roles", caller |-> "retry"]}))
       /\ lastInterview'.op = "rolesOk" =>
             /\ roles' = (IF lastInterview'.resp.shape = "notArray" THEN <<>> ELSE lastInterview'.resp.catalog)
             /\ interviewError' = Null
             /\ ~interviewLoading']_ivars

\* The catalog loaded from a fetch that Try Again issued.
C20_Witness == lastInterview.op = "rolesOk" /\ lastInterview.req.caller = "retry" /\ roles # <<>> /\ interviewError = Null

\* C21: the Clear Search action clears the query text, sets searchMode
\* false, and issues a list fetch of page 1.
C21_ClearSearchReloads ==
    [][last'.op = "clearSearch" =>
          /\ searchTerm' = <<>>
          /\ ~searchMode'
          /\ \E r \in BagToSet(inflight') :
                r.kind = "list" /\ r.pageNum = 1 /\ CopiesIn(r, inflight') = CopiesIn(r, inflight) + 1]_vars

\* The texts of a record the claim names: full name, email, phone, location,
\* current title, applied role, each technical skill and each soft skill.
SearchedTexts(c) ==
    {c.fullName, c.email, c.phone}
    \cup {c.location[i] : i \in 1..Len(c.location)}
    \cup {c.currentTitle[i] : i \in 1..Len(c.currentTitle)}
    \cup {c.role[i] : i \in 1..Len(c.role)}
    \cup UNION {{c.technicalSkills[i][j] : j \in 1..Len(c.technicalSkills[i])} : i \in 1..Len(c.technicalSkills)}
    \cup UNION {{c.softSkills[i][j] : j \in 1..Len(c.softSkills[i])} : i \in 1..Len(c.softSkills)}

\* text with its capital letters lowered
Lowered(text) == [i \in 1..Len(text) |-> IF text[i] = "A" THEN "a" ELSE IF text[i] = "B" THEN "b" ELSE text[i]]

\* needle occurs in hay
IsSubstring(needle, hay) == \E i \in 1..(Len(hay) + 1) : \E j \in (i - 1)..Len(hay) : SubSeq(hay, i, j) = needle

\* The claim's visible set, of its four inputs alone.
VisibleSetOf(cands, query, filter, mode) ==
    SelectSeq(cands, LAMBDA c :
        /\ mode \/ \E text \in SearchedTexts(c) : IsSubstring(Lowered(query), Lowered(text))
        /\ filter = "all" \/ c.status = filter)

\* C22: the visible set is a function of candidates, the query, statusFilter
\* and searchMode alone: the subsequence of the records that (searchMode
\* holds, or the lower-cased query is a substring of one of the record's
\* lower-cased searched texts) and (statusFilter is "all" or the record's
\* status).
C22_VisibleSet == filteredCandidates = VisibleSetOf(candidates, searchTerm, statusFilter, searchMode)

\* A capital query, just typed, picked one of two records out by a soft skill.
C22_Witness ==
    /\ last.op = "setSearchTerm"
    /\ ~searchMode /\ searchTerm = <<"A">> /\ statusFilter = "all"
    /\ Len(candidates) = 2 /\ Len(filteredCandidates) = 1
    /\ filteredCandidates[1]._id = "softSkills"

\* C24: setStatusFilter changes statusFilter only: no request is issued, and
\* candidates, page, totalPages, searchMode, the query, the loading flags and
\* error are unchanged.
C24_StatusFilterOnly ==
    [][last'.op = "setStatusFilter" =>
          /\ statusFilter' = last'.detail
          /\ inflight' = inflight
          /\ UNCHANGED <<candidates, page, totalPages, searchMode, searchTerm, loading, searchLoading, error, deletingCandidate, deleteDialogOpen>>]_vars

\* The status Select narrowed a list that a query had already narrowed.
C24_Witness == last.op = "setStatusFilter" /\ statusFilter = "hold" /\ searchTerm # <<>> /\ Len(candidates) > 0

\* C23: the pagination controls are not shown while searchMode holds; when
\* shown there is one control per page 1..totalPages, Previous is disabled
\* exactly when page = 1 or loading, Next exactly when page = totalPages or
\* loading; so no page request is issued from the controls while searchMode
\* or loading holds.
C23_PaginationGating ==
    [][/\ searchMode' => PageControlTargets' = {}
       /\ loading' => PageControlTargets' = {}
       /\ (~searchMode' /\ totalPages' > 1 /\ ~loading') =>
             PageControlTargets' = (1..totalPages')
                                   \cup (IF page' = 1 THEN {} ELSE {page' - 1})
                                   \cup (IF page' = totalPages' THEN {} ELSE {page' + 1})
       /\ last'.op = "page" =>
             (~searchMode /\ ~loading /\ last'.req.pageNum \in 1..totalPages)]_vars

\* Page 2 was requested from the controls.
C23_Witness == last.op = "page" /\ last.req.pageNum = 2 /\ ~searchMode /\ totalPages > 1

C26_ComplexityLabels ==
    /\ complexityLabel = (IF complexity \in 0..25 THEN "Easy"
                          ELSE IF complexity \in 26..50 THEN "Medium-Low"
                          ELSE IF complexity \in 51..75 THEN "Medium-High"
                          ELSE "Hard")
    /\ complexity \in 0..100
    /\ complexity < 100 =>
          ((complexityDescription # GetComplexityDescription(complexity + 1)) <=> complexity \in {25, 50, 75})

\* The slider was set just past the first boundary.
C26_Witness == lastInterview.op = "setComplexity" /\ complexity = 26 /\ complexityLabel = "Medium-Low"

\* The set of the skills in a selection, and a selection without repeats.
SkillSet(skills) == {skills[i] : i \in 1..Len(skills)}

NoDuplicateSkill(skills) == \A i, j \in 1..Len(skills) : skills[i] = skills[j] => i = j

\* C27: toggleSkill(skill) adds skill when it is absent from the selected
\* skills and removes it when present, leaving the other skills untouched;
\* the selection never holds a duplicate, and toggling the same skill again
\* restores the original set of selected skills.
C27_ToggleSkill ==
    [][/\ NoDuplicateSkill(selectedSkills')
       /\ lastInterview'.op = "toggleSkill" =>
             LET skill == lastInterview'.arg IN
             /\ skill \notin SkillSet(selectedSkills) =>
                   SkillSet(selectedSkills') = SkillSet(selectedSkills) \cup {skill}
             /\ skill \in SkillSet(selectedSkills) =>
                   SkillSet(selectedSkills') = SkillSet(selectedSkills) \ {skill}
             /\ SelectSeq(selectedSkills', LAMBDA x : x # skill) = SelectSeq(selectedSkills, LAMBDA x : x # skill)
             /\ SkillSet(ToggledSkill(selectedSkills', skill)) = SkillSet(selectedSkills)]_ivars

\* A selected skill was toggled off while another stayed selected.
C27_Witness == lastInterview.op = "toggleSkill" /\ lastInterview.arg = "s1" /\ selectedSkills = <<"s2">>

\* C28: selecting a role changes only the selected role: the selected
\* skills, complexity, count, file, generated questions and expanded
\* indices are unchanged, so selected skills persist across a role change.
C28_SelectRoleFrame ==
    [][lastInterview'.op = "selectRole" =>
          /\ selectedRole' = lastInterview'.arg
          /\ UNCHANGED <<selectedSkills, complexity, questionCount, uploadedFile, generatedQuestions, expandedQuestions>>]_ivars

\* The role changed to one that does not offer a skill that stays selected.
C28_Witness ==
    /\ lastInterview.op = "selectRole"
    /\ selectedRole = "rb"
    /\ IncludesSkill(selectedSkills, "s1")
    /\ ~IncludesSkill(AvailableSkillsOf(roles, selectedRole), "s1")

\* The candidates first..lastId of the twelve as the table holds them.
ScenarioCandidates(first, lastId) ==
    [i \in 1..(lastId - first + 1) |->
        Profile(ToString(first + i - 1), FullNameOf(ToString(first + i - 1)), <<"@">>, <<"1">>, None, None, None, None, None, "in-progress")]

\* C29: against a server holding 12 candidates and answering with pages of
\* 5: after the initial load totalPages = 3; requesting page 4 is a no-op
\* that issues no request; the response to a request for page 2 leaves
\* candidates equal to candidates 6..10 and page = 2.
C29_TwelveCandidates ==
    [][/\ (last'.op = "listOk" /\ last'.req.caller = "mount") =>
             (totalPages' = 3 /\ page' = 1 /\ candidates' = ScenarioCandidates(1, 5))
       /\ candSource' = "list" => totalPages' = 3
       /\ (last'.op \in {"page", "pageNoop"} /\ last'.req.pageNum = 4) =>
             (last'.op = "pageNoop" /\ UNCHANGED <<inflight, candidates, page, totalPages, loading, error>>)
       /\ (last'.op = "listOk" /\ last'.req.pageNum = 2) =>
             (page' = 2 /\ candidates' = ScenarioCandidates(6, 10))]_vars

\* Page 2 was requested from page 1 and its response has arrived.
C29_Witness ==
    /\ last.op = "listOk"
    /\ last.req = ListReq(2, "handlePageChange")
    /\ page = 2
    /\ totalPages = 3
    /\ Len(candidates) = 5
    /\ candidates[1]._id = "6"
    /\ candidates[5]._id = "10"

\* C30: a list or search request may be issued while another is
\* outstanding, and each response overwrites candidates, page and totalPages
\* when it resolves, with no sequence guard: after both have resolved the
\* state is that of the response that resolved last, which can be the
\* response to the request issued first.
C30_LastResponseWins ==
    [][/\ last'.op = "listOk" =>
             /\ candidates' = ExpectedRecords(last'.resp.data)
             /\ page' = (IF last'.resp.page = 0 THEN 1 ELSE last'.resp.page)
             /\ totalPages' = (IF last'.resp.pages = 0 THEN 1 ELSE last'.resp.pages)
       /\ last'.op = "searchOk" =>
             /\ candidates' = ExpectedRecords(last'.resp.data)
             /\ page' = 1
             /\ totalPages' = 1]_vars

\* The mount's request, the first issued, resolved right after the response
\* to a request issued while it was outstanding, and its records are shown.
C30_Witness ==
    /\ last.op = "listOk"
    /\ last.req.caller = "mount"
    /\ last.detail = "afterResponse"
    /\ inflight = EmptyBag
    /\ Len(candidates) > 0
    /\ candidates = ExpectedRecords(last.resp.data)

\* C31: once a deleteCandidate(id) request has resolved successfully, no
\* record with that id is in candidates in any later state, also when a
\* list or search response requested before the delete completed arrives
\* afterwards. Stated for the state right after the step that follows the
\* successful delete.
C31_DeletedStaysGone ==
    [][(last.op = "deleteResolved" /\ last.detail = "ok") =>
          \A i \in 1..Len(candidates') : candidates'[i]._id # last.req.id]_vars

\* C32: loading is true in every state in which a list request is
\* outstanding, and searchLoading is true in every state in which a search
\* request is outstanding.
C32_FlagsCoverOutstanding ==
    /\ (\E req \in BagToSet(inflight) : req.kind = "list") => loading
    /\ (\E req \in BagToSet(inflight) : req.kind = "search") => searchLoading

\* C33: once resetForm has run, generatedQuestions stays empty until
\* generateQuestions is invoked again, also when a generation request was
\* outstanding at the reset. Stated for the step that follows the reset.
C33_ResetStaysEmpty ==
    [][(lastInterview.op = "reset" /\ lastInterview'.op \notin {"generate", "generateInvalid"}) =>
          generatedQuestions' = <<>>]_ivars

\* C34: local status edits do not survive a reload: after a successful
\* list or search response each record's status is the status in that
\* response, or in-progress when it carries none, whatever handleStatusChange
\* did before.
C34_ReloadDropsStatusEdits ==
    [][last'.op \in {"listOk", "searchOk"} =>
          /\ Len(candidates') = Len(last'.resp.data)
          /\ \A i \in 1..Len(candidates') :
                /\ candidates'[i]._id = last'.resp.data[i]._id
                /\ candidates'[i].status = (IF last'.resp.data[i].status = NoStatus
                                            THEN "in-progress" ELSE last'.resp.data[i].status)]_vars

\* Row b was set to accepted and the response that followed holds b on hold.
C34_Witness ==
    /\ last.op = "listOk"
    /\ last.edited = <<"b", "accepted">>
    /\ \E i \in 1..Len(candidates) : candidates[i]._id = "b" /\ candidates[i].status = "hold"

\* C35: in every reachable state 1 <= page <= totalPages, provided each
\* list response carries a pagination with 1 <= page <= pages or none
\* (which defaults both to 1; a search success forces both to 1); deletes
\* and status changes never alter page or totalPages.
C35_PageInRange ==
    [][/\ 1 <= page' /\ page' <= totalPages'
       /\ last'.op \in {"status", "openDialog", "closeDialog", "delete", "deleteResolved"} =>
             UNCHANGED <<page, totalPages>>]_vars

\* A delete succeeded on the last page of two.
C35_Witness ==
    /\ last.op = "deleteResolved"
    /\ last.detail = "ok"
    /\ page = 2
    /\ totalPages = 2

\* C36: error is non-null exactly when the most recently resolved list or
\* search request failed: only a failed list or search response sets it,
\* only a successful one clears it, and deleteCandidate, handleStatusChange,
\* the status filter and the issuing of a request never change it.
C36_ErrorFollowsLastResponse ==
    [][/\ last'.op \in {"listFail", "searchFail"} => error' # Null
       /\ last'.op \in {"listOk", "searchOk"} => error' = Null
       /\ last'.op \notin {"listFail", "searchFail", "listOk", "searchOk"} => UNCHANGED error]_vars

\* A request was issued with the error of an earlier failure on display.
C36_Witness ==
    /\ last.op = "search"
    /\ error = "Failed to fetch candidates."
    /\ \E req \in BagToSet(inflight) : req.kind = "search"

IssuesRequest ==
    \/ BagCardinality(inflight') > BagCardinality(inflight)
    \/ BagCardinality(pending') > BagCardinality(pending)

\* loading, searchLoading, the delete marker, the generating flag and the
\* catalog loading flag are all cleared.
FlagsCleared ==
    /\ ~loading
    /\ ~searchLoading
    /\ deletingCandidate = Null
    /\ ~isGenerating
    /\ ~interviewLoading

\* C38: when every issued request eventually resolves, successfully or not,
\* and from some point on no request is issued, the system reaches a state
\* from which loading, searchLoading, deletingCandidate, isGenerating and
\* the catalog's loading flag are all cleared for good: no failure leaves a
\* flag set forever.
C38_FlagsEventuallyCleared ==
    <>[][~IssuesRequest]_<<vars, ivars>> => <>[]FlagsCleared

\* Nothing is outstanding and every flag is cleared after failures in both
\* components.
C38_Witness ==
    /\ FlagsCleared
    /\ inflight = EmptyBag
    /\ pending = EmptyBag
    /\ last.op = "searchFail"
    /\ lastInterview.op = "generateFail"

====
